---- MODULE Spec2Model ----
(***************************************************************************)
(* Raft node of the replicated key-value store: role transitions, the      *)
(* election timer, the vote collector (src/unnamed/part_000) and the       *)
(* replication engine (src/replicated_kv_store/kv_store_node.go).          *)
(*                                                                         *)
(* One RaftNode record per replica; every goroutine the code starts is a   *)
(* record with its position (pc).  raft_node_mutex is the field mutex; a   *)
(* goroutine that holds it while blocked for ever on a channel send is     *)
(* recorded in blockedOn.  A Go panic (nil dereference, index out of       *)
(* range) ends the whole process: alive becomes FALSE.                     *)
(***************************************************************************)
EXTENDS Integers, Sequences, FiniteSets, TLC

\* ------------------------------------------------------------------ bounds
MaxVoteCalls == 4     \* RequestVote goroutines started from construction
LeaderVoteCalls == 2  \* RequestVote goroutines started during a leadership
MaxBeats == 1         \* heartbeat ticks per leadership
LongBeats == 2        \* heartbeat ticks of a leadership without elections
ClusterSizes == {1, 2, 3}   \* values of the -n flag that are explored
Replicas == 0 .. 2

Follower == "Follower"
Candidate == "Candidate"
Leader == "Leader"

Nil == [nil |-> TRUE]

VARIABLES
    n_replica,       \* the -n flag
    node,            \* node[i]: the RaftNode of replica i
    elec,            \* goroutines started by StartElection
    received_votes,  \* received_votes[i][t]: tally of i's election for term t
    aes,             \* goroutines started by LeaderSendAEs
    successes,       \* successes[i][c]: counter of i's c-th LeaderSendAEs call
    hb,              \* hb[i]: the HeartBeats goroutine of replica i
    budget           \* votes: RequestVote goroutines that may still be started;
                     \* beats: heartbeat ticks a leadership may take

vars == <<n_replica, node, elec, received_votes, aes, successes, hb, budget>>

Cluster == 0 .. (n_replica - 1)
Peers(i) == Cluster \ {i}

\* What an election takes from the budget: its goroutines (a cluster of one
\* starts none: the election itself is counted).
ElectionCost == IF n_replica > 1 THEN n_replica - 1 ELSE 1
MayStartElection == ElectionCost <= budget.votes

\* ------------------------------------------------------------ role changes

\* A send on electionResetEvent completes only if a RunElectionTimer
\* goroutine is waiting in its select; the receiver restarts itself, so the
\* number of waiting timers is unchanged.  Otherwise the sender, which holds
\* the mutex, is blocked and nothing can ever receive.
SendReset(nd) ==
    IF nd.timers > 0 THEN nd ELSE [nd EXCEPT !.blockedOn = "electionResetEvent"]

\* ToFollower without the assignment to currentTerm.
ToFollowerKeepsTerm(nd, term) ==
    LET nd1 == [nd EXCEPT !.state = Follower, !.votedFor = -1]
    IN IF nd.state = Leader
          THEN [nd1 EXCEPT !.timers = @ + 1]
          ELSE SendReset(nd1)

\* ToFollower that starts a timer whatever the previous role was.
ToFollowerAlwaysStarts(nd, term) ==
    [nd EXCEPT !.state = Follower, !.currentTerm = term, !.votedFor = -1,
               !.timers = @ + 1]

ToFollower(nd, term) ==
    LET nd1 == [nd EXCEPT !.state = Follower, !.currentTerm = term, !.votedFor = -1]
    IN IF nd.state = Leader
          THEN [nd1 EXCEPT !.timers = @ + 1]
          ELSE SendReset(nd1)

\* A panic in any goroutine ends the process with all its goroutines.
Crash(i) ==
    /\ node' = [node EXCEPT ![i].alive = FALSE]
    /\ elec' = {g \in elec : g.node # i}
    /\ aes' = {g \in aes : g.node # i}
    /\ hb' = [hb EXCEPT ![i] = [pc |-> "none", call |-> 0, beats |-> 0, got |-> "none"]]
    /\ UNCHANGED <<budget, n_replica, received_votes, successes>>

\* ----------------------------------------------------------- election timer

\* RunElectionTimer: the time.After case of the select is taken.
TimerFire(i) ==
    /\ i \in Cluster
    /\ node[i].alive
    /\ node[i].timers > 0
    /\ MayStartElection
    /\ node' = [node EXCEPT ![i].timers = @ - 1, ![i].fired = @ + 1]
    /\ UNCHANGED <<budget, n_replica, elec, received_votes, aes, successes, hb>>

\* ToCandidate with currentTerm-- for currentTerm++.
ToCandidateDecrements(i) ==
    /\ i \in Cluster
    /\ node[i].alive
    /\ node[i].fired > 0
    /\ node[i].mutex = "free"
    /\ MayStartElection
    /\ LET T == node[i].currentTerm - 1 IN
        /\ node' = [node EXCEPT ![i].state = Candidate,
                                ![i].currentTerm = T,
                                ![i].votedFor = i,
                                ![i].fired = @ - 1,
                                ![i].timers = @ + 1]
        /\ elec' = elec \cup {[node |-> i, elec |-> T, peer |-> p, pc |-> "start",
                               term |-> 0, resp |-> Nil, err |-> FALSE] : p \in Peers(i)}
        /\ received_votes' = [received_votes EXCEPT ![i] = (T :> 1) @@ @]
    /\ budget' = [budget EXCEPT !.votes = @ - ElectionCost]
    /\ UNCHANGED <<n_replica, aes, successes, hb>>

\* ToCandidate, entered by a fired timer once it gets the mutex, and the
\* StartElection it calls: one goroutine per peer, tally 1, unlock, new timer.
ToCandidate(i) ==
    /\ i \in Cluster
    /\ node[i].alive
    /\ node[i].fired > 0
    /\ node[i].mutex = "free"
    /\ MayStartElection
    /\ LET T == node[i].currentTerm + 1 IN
        /\ node' = [node EXCEPT ![i].state = Candidate,
                                ![i].currentTerm = T,
                                ![i].votedFor = i,
                                ![i].fired = @ - 1,
                                ![i].timers = @ + 1]
        /\ elec' = elec \cup {[node |-> i, elec |-> T, peer |-> p, pc |-> "start",
                               term |-> 0, resp |-> Nil, err |-> FALSE] : p \in Peers(i)}
        /\ received_votes' = [received_votes EXCEPT ![i] = (T :> 1) @@ @]
    /\ budget' = [budget EXCEPT !.votes = @ - ElectionCost]
    /\ UNCHANGED <<n_replica, aes, successes, hb>>

\* ---------------------------------------------------------- vote collector

\* The goroutine builds args from node.currentTerm without the mutex and
\* issues the call: the term it carries is the one current when it runs.
ElectionSend(g) ==
    /\ g \in elec
    /\ g.pc = "start"
    /\ elec' = (elec \ {g}) \cup {[g EXCEPT !.pc = "sent", !.term = node[g.node].currentTerm]}
    /\ UNCHANGED <<budget, n_replica, node, received_votes, aes, successes, hb>>

LastLogIndex(nd) == Len(nd.log) - 1
LastLogTerm(nd) == IF Len(nd.log) = 0 THEN -1 ELSE nd.log[Len(nd.log)].Term

\* RequestVoteMessage as StartElection fills it: Term and CandidateId only;
\* the other two fields keep Go's zero value.
RequestVoteArgs(g) ==
    [Term |-> g.term, CandidateId |-> g.node, LastLogIndex |-> 0, LastLogTerm |-> 0]

UpToDate(req, nd) ==
    \/ req.LastLogTerm > LastLogTerm(nd)
    \/ req.LastLogTerm = LastLogTerm(nd) /\ req.LastLogIndex >= LastLogIndex(nd)

\* Server side of RequestVote: the node after the handler, with the reply
\* in field reply (Nil when the handler blocked before replying).
RequestVote(nd, req) ==
    LET nd1 == IF req.Term > nd.currentTerm THEN ToFollower(nd, req.Term) ELSE nd
        grant == /\ req.Term = nd1.currentTerm
                 /\ nd1.votedFor \in {-1, req.CandidateId}
                 /\ UpToDate(req, nd1)
        nd2 == IF grant THEN SendReset([nd1 EXCEPT !.votedFor = req.CandidateId]) ELSE nd1
    IN IF nd1.blockedOn # "none" THEN [nd |-> nd1, reply |-> Nil]
       ELSE IF nd2.blockedOn # "none" THEN [nd |-> nd2, reply |-> Nil]
       ELSE [nd |-> nd2, reply |-> [Term |-> nd2.currentTerm, VoteGranted |-> grant]]

\* A handler that blocked keeps the mutex.
AfterHandler(nd) ==
    IF nd.blockedOn # "none" THEN [nd EXCEPT !.mutex = "held"] ELSE nd

HandleRequestVote(g) ==
    /\ g \in elec
    /\ g.pc = "sent"
    /\ node[g.peer].alive
    /\ node[g.peer].mutex = "free"
    /\ LET r == RequestVote(node[g.peer], RequestVoteArgs(g)) IN
        /\ node' = [node EXCEPT ![g.peer] = AfterHandler(r.nd)]
        /\ elec' = IF r.reply = Nil THEN elec
                   ELSE (elec \ {g}) \cup {[g EXCEPT !.pc = "reply", !.resp = r.reply]}
    /\ UNCHANGED <<budget, n_replica, received_votes, aes, successes, hb>>

\* What the goroutine does with (response, err): "panic", "return", "follower",
\* "vote" (tally incremented, no majority), "leader" (ToLeader is called) or
\* "ignore".  The branch that reads the response is the one for err != nil.
VoteOutcome(nd, g, tally) ==
    IF g.err
    THEN IF nd.state # Candidate THEN "return"
         ELSE IF g.resp = Nil THEN "panic"
         ELSE IF g.resp.Term > nd.currentTerm THEN "follower"
         ELSE IF g.resp.Term = nd.currentTerm /\ g.resp.VoteGranted
              THEN IF (tally + 1) * 2 > n_replica THEN "leader" ELSE "vote"
              ELSE "ignore"
    ELSE "panic"   \* err.Error() on a nil error

\* The goroutine acts on what the call returned.
VoteReplyStep(g, err) ==
    LET i == g.node
        out == VoteOutcome(node[i], [g EXCEPT !.err = err], received_votes[i][g.elec])
    IN CASE out = "panic" -> Crash(i)
            [] out = "follower" ->
                 /\ node' = [node EXCEPT ![i] = AfterHandler(ToFollower(node[i], g.resp.Term))]
                 /\ elec' = elec \ {g}
                 /\ UNCHANGED <<budget, n_replica, received_votes, aes, successes, hb>>
            [] out \in {"vote", "leader"} ->
                 /\ received_votes' = [received_votes EXCEPT ![i][g.elec] = @ + 1]
                 /\ IF out = "leader"
                       THEN /\ node' = [node EXCEPT ![i].mutex = "held"]
                            /\ elec' = (elec \ {g}) \cup {[g EXCEPT !.pc = "win", !.err = err]}
                       ELSE /\ node' = node
                            /\ elec' = elec \ {g}
                 /\ UNCHANGED <<budget, n_replica, aes, successes, hb>>
            [] OTHER ->
                 /\ elec' = elec \ {g}
                 /\ UNCHANGED <<budget, n_replica, node, received_votes, aes, successes, hb>>

\* A reply came back: (response, nil).
ElectionReply(g) ==
    /\ g \in elec
    /\ g.pc = "reply"
    /\ VoteReplyStep(g, FALSE)

\* The call returns (nil, err), the peer being down or unreachable, and the
\* goroutine takes the mutex to act on it.
RequestVoteFails(g) ==
    /\ g \in elec
    /\ g.pc = "sent"
    /\ node[g.node].mutex = "free"
    /\ VoteReplyStep(g, TRUE)

\* ---------------------------------------------------------------- leader

\* Go index k of a log is position k + 1 of the sequence.
LogSlice(lg, from, to) == SubSeq(lg, from + 1, to + 1)
\* The no-op with the zero term instead of currentTerm.
NoOpTermZero(term) == [Term |-> 0, Operation |-> "NO-OP"]

NoOp(term) == [Term |-> term, Operation |-> "NO-OP"]

NoHeartBeats == [pc |-> "none", call |-> 0, beats |-> 0, got |-> "none"]

\* BecomeLeader with nextIndex taken from the log after the no-op.
BecomeLeaderAfterNoOp(nd, i) ==
    [nd EXCEPT !.timers = @ - 1,
               !.state = Leader,
               !.nextIndex = [p \in Replicas |-> IF p \in Peers(i) THEN Len(nd.log) + 1 ELSE @[p]],
               !.matchIndex = [p \in Replicas |-> IF p \in Peers(i) THEN 0 ELSE @[p]],
               !.log = Append(@, NoOp(nd.currentTerm)),
               !.mutex = "free"]

\* The fields ToLeader writes after the stop signal was taken: role, the
\* per-peer indices (from the log before the no-op), then the no-op.
BecomeLeader(nd, i) ==
    [nd EXCEPT !.timers = @ - 1,
               !.state = Leader,
               !.nextIndex = [p \in Replicas |-> IF p \in Peers(i) THEN Len(nd.log) ELSE @[p]],
               !.matchIndex = [p \in Replicas |-> IF p \in Peers(i) THEN 0 ELSE @[p]],
               !.log = Append(@, NoOp(nd.currentTerm)),
               !.mutex = "free"]

\* The message ToLeader composes, from the log that already holds the no-op.
NoOpMessage(nd) ==
    [Term |-> nd.currentTerm, LeaderId |-> nd.votedFor,
     PrevLogIndex |-> Len(nd.log) - 1, PrevLogTerm |-> nd.log[Len(nd.log)].Term,
     LeaderCommit |-> nd.commitIndex, Entries |-> <<nd.log[Len(nd.log)]>>]

\* ToLeader, called by the vote goroutine that saw the majority (it holds the
\* mutex).  The send on stopElectiontimer needs a timer waiting in its
\* select.  The three-argument LeaderSendAEs of part_000 starts one goroutine
\* per peer; each reads the loop variable replica_id only after it got the
\* mutex, when the loop has ended with replica_id = len(peer_replica_clients).
ToLeader(g) ==
    /\ g \in elec
    /\ g.pc = "win"
    /\ node[g.node].timers > 0
    /\ LET i == g.node
           nd == BecomeLeader(node[i], i)
       IN /\ node' = [node EXCEPT ![i] = nd]
          /\ elec' = elec \ {g}
          /\ aes' = aes \cup {[node |-> i, ver |-> "old", call |-> 0, rid |-> n_replica,
                               peer |-> p, upper |-> Len(nd.log) - 1,
                               msg |-> NoOpMessage(nd), pc |-> "lock", tries |-> 0,
                               resp |-> Nil, err |-> FALSE, val |-> FALSE] : p \in Peers(i)}
          /\ hb' = [hb EXCEPT ![i] = [NoHeartBeats EXCEPT !.pc = "tick"]]
    /\ UNCHANGED <<budget, n_replica, received_votes, successes>>

\* The per-peer goroutine of LeaderSendAEs takes the mutex and, holding it,
\* issues the AppendEntries call of LeaderSendAE.
AELock(g) ==
    /\ g \in aes
    /\ g.pc = "lock"
    /\ node[g.node].mutex = "free"
    /\ node' = [node EXCEPT ![g.node].mutex = "held"]
    /\ aes' = (aes \ {g}) \cup {[g EXCEPT !.pc = "rpc"]}
    /\ UNCHANGED <<budget, n_replica, elec, received_votes, successes, hb>>

\* Server side of AppendEntries: the log after the entries are merged in.
MergeEntries(lg, prev, entries) ==
    LET conflict == {k \in 1 .. Len(entries) :
                        \/ prev + k > Len(lg)
                        \/ lg[prev + k].Term # entries[k].Term}
    IN IF conflict = {} THEN lg
       ELSE LET k == CHOOSE x \in conflict : \A y \in conflict : x <= y
            IN SubSeq(lg, 1, prev + k - 1) \o SubSeq(entries, k, Len(entries))

Min(a, b) == IF a < b THEN a ELSE b

AppendEntries(nd, req) ==
    LET nd1 == IF req.Term > nd.currentTerm THEN ToFollower(nd, req.Term) ELSE nd
        nd2 == SendReset(nd1)
        mismatch == /\ req.PrevLogIndex >= 0
                    /\ \/ Len(nd2.log) <= req.PrevLogIndex
                       \/ nd2.log[req.PrevLogIndex + 1].Term # req.PrevLogTerm
        last == req.PrevLogIndex + Len(req.Entries)
        nd3 == [nd2 EXCEPT !.log = MergeEntries(@, req.PrevLogIndex + 1, req.Entries),
                           !.commitIndex = IF req.LeaderCommit > @
                                           THEN Min(req.LeaderCommit, last) ELSE @]
    IN IF nd1.blockedOn # "none" THEN [nd |-> nd1, reply |-> Nil]
       ELSE IF req.Term < nd1.currentTerm
            THEN [nd |-> nd1, reply |-> [Term |-> nd1.currentTerm, Success |-> FALSE]]
       ELSE IF nd2.blockedOn # "none" THEN [nd |-> nd2, reply |-> Nil]
       ELSE IF mismatch
            THEN [nd |-> nd2, reply |-> [Term |-> nd2.currentTerm, Success |-> FALSE]]
       ELSE [nd |-> nd3, reply |-> [Term |-> nd3.currentTerm, Success |-> TRUE]]

HandleAppendEntries(g) ==
    /\ g \in aes
    /\ g.pc = "rpc"
    /\ node[g.peer].alive
    /\ node[g.peer].mutex = "free"
    /\ LET r == AppendEntries(node[g.peer], g.msg) IN
        /\ node' = [node EXCEPT ![g.peer] = AfterHandler(r.nd)]
        /\ aes' = IF r.reply = Nil THEN aes
                  ELSE (aes \ {g}) \cup {[g EXCEPT !.pc = "reply", !.resp = r.reply]}
    /\ UNCHANGED <<budget, n_replica, elec, received_votes, successes, hb>>

\* LeaderSendAE of kv_store_node.go on (response, err).  status is "true" or
\* "false" (the value returned), "retry" (the recursive call, with msg) or
\* "panic" (an index outside the log).
LeaderSendAE(nd, g) ==
    LET prevLogIndex == g.msg.PrevLogIndex - 1
        new_msg == [Term |-> nd.currentTerm, LeaderId |-> g.node,
                    PrevLogIndex |-> prevLogIndex,
                    PrevLogTerm |-> IF prevLogIndex >= 0 THEN nd.log[prevLogIndex + 1].Term
                                    ELSE -1,
                    LeaderCommit |-> nd.commitIndex,
                    Entries |-> LogSlice(nd.log, g.msg.PrevLogIndex, g.upper)]
    IN IF g.err THEN [nd |-> nd, status |-> "false", msg |-> g.msg]
       ELSE IF ~g.resp.Success
       THEN IF nd.state # Leader THEN [nd |-> nd, status |-> "false", msg |-> g.msg]
            ELSE IF g.resp.Term > nd.currentTerm
                 THEN [nd |-> ToFollower(nd, g.resp.Term), status |-> "false", msg |-> g.msg]
            ELSE IF \/ g.msg.PrevLogIndex <= g.upper
                       /\ (g.msg.PrevLogIndex < 0 \/ g.upper >= Len(nd.log))
                    \/ prevLogIndex >= Len(nd.log)
                 THEN [nd |-> [nd EXCEPT !.nextIndex[g.rid] = @ - 1],
                       status |-> "panic", msg |-> g.msg]
            ELSE [nd |-> [nd EXCEPT !.nextIndex[g.rid] = @ - 1],
                  status |-> "retry", msg |-> new_msg]
       ELSE [nd |-> [nd EXCEPT !.nextIndex[g.rid] = g.upper + 1,
                               !.matchIndex[g.rid] = g.upper],
             status |-> "true", msg |-> g.msg]

\* LeaderSendAE of part_000: the error is dropped and the response is read
\* at once; replica_id indexes nextIndex and matchIndex, which have one
\* slot per replica.
LeaderSendAE0(nd, g) ==
    LET tmp == Min(Len(nd.log), g.upper + 1)
        new_msg == [Term |-> nd.currentTerm, LeaderId |-> g.node,
                    PrevLogIndex |-> g.msg.PrevLogIndex - 1,
                    PrevLogTerm |-> nd.log[g.msg.PrevLogIndex].Term,
                    LeaderCommit |-> nd.commitIndex,
                    Entries |-> LogSlice(nd.log, g.msg.PrevLogIndex, tmp - 1)]
    IN IF g.resp = Nil THEN [nd |-> nd, status |-> "panic", msg |-> g.msg]
       ELSE IF ~g.resp.Success
       THEN IF nd.state # Leader THEN [nd |-> nd, status |-> "return", msg |-> g.msg]
            ELSE IF g.resp.Term > nd.currentTerm
                 THEN [nd |-> ToFollower(nd, g.resp.Term), status |-> "return", msg |-> g.msg]
            ELSE IF g.rid \notin Cluster
                 THEN [nd |-> nd, status |-> "panic", msg |-> g.msg]
            ELSE IF \/ g.msg.PrevLogIndex < tmp /\ g.msg.PrevLogIndex < 0
                    \/ g.msg.PrevLogIndex - 1 < 0
                    \/ g.msg.PrevLogIndex - 1 >= Len(nd.log)
                 THEN [nd |-> [nd EXCEPT !.nextIndex[g.rid] = @ - 1],
                       status |-> "panic", msg |-> g.msg]
            ELSE [nd |-> [nd EXCEPT !.nextIndex[g.rid] = @ - 1],
                  status |-> "retry", msg |-> new_msg]
       ELSE IF g.rid \notin Cluster
            THEN [nd |-> nd, status |-> "panic", msg |-> g.msg]
       ELSE [nd |-> [nd EXCEPT !.nextIndex[g.rid] = g.upper + 1,
                               !.matchIndex[g.rid] = g.upper],
             status |-> "return", msg |-> g.msg]

\* write quorum: successes after this acknowledgement equals n_replicas/2 + 1
QuorumReached(tot_success) == tot_success = (n_replica \div 2) + 1

\* The goroutine of LeaderSendAEs after LeaderSendAE has the reply: it
\* retries (mutex kept), returns and unlocks, or goes on to send the outcome
\* on successful_write with the mutex still held.
AEReplyStep(g, err) ==
    LET i == g.node
        ge == [g EXCEPT !.err = err]
        r == IF g.ver = "old" THEN LeaderSendAE0(node[i], ge) ELSE LeaderSendAE(node[i], ge)
        tot == successes[i][g.call] + 1
    IN CASE r.status = "panic" -> Crash(i)
            [] r.status = "retry" ->
                 /\ node' = [node EXCEPT ![i] = r.nd]
                 /\ aes' = (aes \ {g}) \cup
                           {[g EXCEPT !.pc = "rpc", !.msg = r.msg, !.resp = Nil, !.err = FALSE,
                                      !.tries = @ + 1]}
                 /\ UNCHANGED <<budget, n_replica, elec, received_votes, successes, hb>>
            [] r.status = "return" ->
                 /\ node' = [node EXCEPT ![i] = [r.nd EXCEPT !.mutex = "free"]]
                 /\ aes' = aes \ {g}
                 /\ UNCHANGED <<budget, n_replica, elec, received_votes, successes, hb>>
            [] r.status = "true" ->
                 /\ successes' = [successes EXCEPT ![i][g.call] = tot]
                 /\ IF QuorumReached(tot)
                       THEN /\ node' = [node EXCEPT ![i] = r.nd]
                            /\ aes' = (aes \ {g}) \cup {[g EXCEPT !.pc = "send", !.val = TRUE]}
                       ELSE /\ node' = [node EXCEPT ![i] = [r.nd EXCEPT !.mutex = "free"]]
                            /\ aes' = aes \ {g}
                 /\ UNCHANGED <<budget, n_replica, elec, received_votes, hb>>
            [] r.status = "false" ->
                 /\ node' = [node EXCEPT ![i] = r.nd]
                 /\ aes' = (aes \ {g}) \cup
                           {[g EXCEPT !.pc = "send", !.val = FALSE, !.err = err]}
                 /\ UNCHANGED <<budget, n_replica, elec, received_votes, successes, hb>>

\* A reply came back: (response, nil).
AEReply(g) ==
    /\ g \in aes
    /\ g.pc = "reply"
    /\ AEReplyStep(g, FALSE)

\* The call returns (nil, err); the goroutine, which holds the mutex, acts on it.
AppendEntriesFails(g) ==
    /\ g \in aes
    /\ g.pc = "rpc"
    /\ AEReplyStep(g, TRUE)

\* HeartBeats after a tick, under the read lock: it returns when the node is
\* no longer Leader; otherwise it composes one message from nextIndex[0] and
\* hands it to LeaderSendAEs with upper_index len(log) - 1 and a new channel.
HeartBeatMessage(nd, i) ==
    LET prevLogIndex == nd.nextIndex[0] - 1 IN
    [Term |-> nd.currentTerm, LeaderId |-> i,
     PrevLogIndex |-> prevLogIndex,
     PrevLogTerm |-> IF prevLogIndex >= 0 THEN nd.log[prevLogIndex + 1].Term ELSE -1,
     LeaderCommit |-> nd.commitIndex, Entries |-> <<>>]

HeartBeatTick(i) ==
    /\ i \in Cluster
    /\ hb[i].pc = "tick"
    /\ node[i].mutex = "free"
    /\ IF node[i].state # Leader
          THEN /\ hb' = [hb EXCEPT ![i] = NoHeartBeats]
               /\ UNCHANGED <<budget, n_replica, node, elec, received_votes, aes, successes>>
          ELSE IF node[i].nextIndex[0] - 1 >= Len(node[i].log)
          THEN Crash(i)
          ELSE /\ hb[i].beats < budget.beats
               /\ LET c == hb[i].beats + 1 IN
                   /\ hb' = [hb EXCEPT ![i] = [pc |-> "recv", call |-> c, beats |-> c, got |-> "none"]]
                   /\ successes' = [successes EXCEPT ![i] = (c :> 1) @@ @]
                   /\ aes' = aes \cup {[node |-> i, ver |-> "new", call |-> c, rid |-> p,
                                        peer |-> p, upper |-> Len(node[i].log) - 1,
                                        msg |-> HeartBeatMessage(node[i], i), pc |-> "lock", tries |-> 0,
                                        resp |-> Nil, err |-> FALSE, val |-> FALSE]
                                       : p \in Peers(i)}
               /\ UNCHANGED <<budget, n_replica, node, elec, received_votes>>

\* HeartBeats takes one value from the channel of its current call; the
\* sender then unlocks and ends.
HeartBeatRecv(g) ==
    /\ g \in aes
    /\ g.pc = "send"
    /\ hb[g.node].pc = "recv"
    /\ hb[g.node].call = g.call
    /\ hb' = [hb EXCEPT ![g.node].pc = "tick", ![g.node].got = IF g.val THEN "true" ELSE "false"]
    /\ aes' = aes \ {g}
    /\ node' = [node EXCEPT ![g.node].mutex = "free"]
    /\ UNCHANGED <<budget, n_replica, elec, received_votes, successes>>

\* -------------------------------------------------------------------- init

\* The node InitializeNode returns, with its election timer running.
NewNode ==
    [state |-> Follower, currentTerm |-> 0, votedFor |-> -1, log |-> <<>>,
     commitIndex |-> -1,
     nextIndex |-> [p \in Replicas |-> 0], matchIndex |-> [p \in Replicas |-> 0],
     mutex |-> "free", blockedOn |-> "none", timers |-> 1, fired |-> 0,
     alive |-> TRUE]

Init ==
    /\ n_replica \in ClusterSizes
    /\ node = [i \in Replicas |-> IF i < n_replica THEN NewNode
                                  ELSE [NewNode EXCEPT !.timers = 0, !.alive = FALSE]]
    /\ elec = {}
    /\ received_votes = [i \in Replicas |-> <<>>]
    /\ aes = {}
    /\ successes = [i \in Replicas |-> <<>>]
    /\ hb = [i \in Replicas |-> NoHeartBeats]
    /\ budget = [votes |-> MaxVoteCalls, beats |-> MaxBeats]

ElectionNext ==
    \/ \E i \in Replicas : TimerFire(i)
    \/ \E i \in Replicas : ToCandidate(i)
    \/ \E g \in elec : ElectionSend(g)
    \/ \E g \in elec : HandleRequestVote(g)
    \/ \E g \in elec : RequestVoteFails(g)
    \/ \E g \in elec : ElectionReply(g)

Spec == Init /\ [][ElectionNext]_vars

\* ------------------------------------------------------------ a leadership

\* The logs a replica may hold when an election of term 2 is won: entries
\* of term 1.
Entry1 == [Term |-> 1, Operation |-> "SET"]
InitLogs == {<<>>, <<Entry1>>}

\* The replicas that may win the election: replica 0, whose own slot is the
\* nextIndex[0] that HeartBeats reads, and replica 1, for which that slot
\* belongs to a peer.
Winners == {0, 1}

\* Replica w is Candidate of term 2 and one of its vote goroutines, holding
\* the mutex, is about to call ToLeader; the peers are Followers of term 2
\* that voted for it; its first peer holds any of the logs, the other peer
\* the winner's.
LeaderStart(votes, beats) ==
    /\ n_replica \in ClusterSizes \ {1}
    /\ \E w \in Winners, lw \in InitLogs, lp \in InitLogs :
         /\ node = [i \in Replicas |->
                   IF i >= n_replica THEN [NewNode EXCEPT !.timers = 0, !.alive = FALSE]
                   ELSE IF i = w
                   THEN [NewNode EXCEPT !.state = Candidate, !.currentTerm = 2,
                                        !.votedFor = w, !.log = lw, !.mutex = "held"]
                   ELSE [NewNode EXCEPT !.currentTerm = 2, !.votedFor = w,
                                        !.log = IF i = 1 - w THEN lp ELSE lw]]
         /\ elec = {[node |-> w, elec |-> 2, peer |-> 1 - w, pc |-> "win",
                     term |-> 2, resp |-> Nil, err |-> TRUE]}
         /\ received_votes = [i \in Replicas |-> IF i = w THEN (2 :> 2) ELSE <<>>]
    /\ aes = {}
    /\ successes = [i \in Replicas |-> <<>>]
    /\ hb = [i \in Replicas |-> NoHeartBeats]
    /\ budget = [votes |-> votes, beats |-> beats]

InitLeader == LeaderStart(LeaderVoteCalls, MaxBeats)

ReplicationNext ==
    \/ \E g \in elec : ToLeader(g)
    \/ \E g \in aes : AELock(g)
    \/ \E g \in aes : HandleAppendEntries(g)
    \/ \E g \in aes : AppendEntriesFails(g)
    \/ \E g \in aes : AEReply(g)
    \/ \E i \in Replicas : HeartBeatTick(i)
    \/ \E g \in aes : HeartBeatRecv(g)

Next == ElectionNext \/ ReplicationNext

LeaderSpec == InitLeader /\ [][Next]_vars

\* Both starting points, every step of the node: from construction and from
\* the entry of ToLeader.
InitAny == Init \/ InitLeader

RaftSpec == InitAny /\ [][Next]_vars

\* A leadership of several heartbeats during which no election timer fires.
InitBeats == LeaderStart(0, LongBeats)

BeatSpec == InitBeats /\ [][ReplicationNext]_vars

\* ------------------------------------------------------------------ claims

Majority == (n_replica \div 2) + 1

\* C2: a replica's vote, once given in a term, stays with the same candidate
\* for as long as the replica is in that term.
C2_VoteUniqueness ==
    [][\A i \in Replicas :
          (node[i].votedFor # -1 /\ node'[i].currentTerm = node[i].currentTerm)
              => node'[i].votedFor = node[i].votedFor]_vars

\* Replica i has handled no RequestVote: every vote goroutine addressed to
\* it is still before its call or in flight.
NoVoteRequestHandled(i) ==
    \A p \in Cluster \ {i} : \A t \in DOMAIN received_votes[p] :
        \E e \in elec : e.node = p /\ e.elec = t /\ e.peer = i /\ e.pc \in {"start", "sent"}

\* Replica i was Leader and LeaderSendAE moved it to the higher term of a
\* rejecting reply: the goroutine that holds the mutex is about to report
\* the failure.
SteppedDownOnReply(i) ==
    /\ NoVoteRequestHandled(i)
    /\ node[i].state = Follower
    /\ \E g \in aes :
         /\ g.node = i /\ g.pc = "send" /\ ~g.val
         /\ g.resp # Nil
         /\ g.resp.Term > g.msg.Term
         /\ node[i].currentTerm = g.resp.Term

\* The former leader, which voted for itself in term 2, has been moved to a
\* higher term by LeaderSendAE's ToFollower and holds no vote there.
C2_Witness ==
    /\ SteppedDownOnReply(0)
    /\ node[0].votedFor = -1
    /\ \E p \in Cluster : node[p].votedFor = p /\ node[p].currentTerm = node[0].currentTerm

\* C3: no step lowers a replica's currentTerm or its commitIndex.
C3_Monotonicity ==
    [][\A i \in Replicas :
          /\ node'[i].currentTerm >= node[i].currentTerm
          /\ node'[i].commitIndex >= node[i].commitIndex]_vars

\* A leader has stepped down on an AppendEntries reply and a peer has gone
\* through ToCandidate: both raised a term.
C3_Witness ==
    /\ SteppedDownOnReply(0)
    /\ node[0].currentTerm = 3
    /\ \E p \in Cluster \ {0} : node[p].state = Candidate /\ node[p].currentTerm = 3

\* C5: a granted vote of the election's term that arrives without a
\* transport error and completes the majority, at a replica that is still
\* Candidate of that term, makes the replica win: ToLeader is called.
C5_GrantedMajorityWins ==
    [][\A g \in elec :
          ( /\ g.pc = "reply"
            /\ ~g.err
            /\ g.resp # Nil
            /\ g.resp.VoteGranted
            /\ g.resp.Term = g.elec
            /\ node[g.node].state = Candidate
            /\ node[g.node].currentTerm = g.elec
            /\ (received_votes[g.node][g.elec] + 1) >= Majority
            /\ ElectionReply(g) )
          => /\ node'[g.node].alive
             /\ \/ node'[g.node].state = Leader
                \/ \E w \in elec' : w.node = g.node /\ w.pc = "win"]_vars

\* C6: in a cluster of one, when the timer that StartElection started has
\* run out (one election timeout after candidacy began), the replica is Leader.
C6_SoleReplicaElectsItself ==
    (n_replica = 1 /\ node[0].currentTerm >= 1 /\ node[0].fired > 0)
        => node[0].state = Leader

\* C7: a replica never has two timers counting down, and ToCandidate is
\* entered only by a Follower or a Candidate.
C7_TimerDiscipline ==
    [][\A i \in Replicas :
          /\ node'[i].timers + node'[i].fired <= 1
          /\ ToCandidate(i) => node[i].state \in {Follower, Candidate}]_vars

\* ToLeader stopped the timer, ToFollower started one when the leader
\* stepped down, and a peer's timer fired and took it through ToCandidate
\* twice.
C7_Witness ==
    /\ SteppedDownOnReply(0)
    /\ node[0].timers = 1
    /\ \E p \in Cluster \ {0} :
         /\ node[p].state = Candidate
         /\ Cardinality(DOMAIN received_votes[p]) = 2
         /\ node[p].timers = 1

\* C8: no goroutine waits for the reply of an outbound call while it holds
\* raft_node_mutex.
C8_NoRpcUnderLock ==
    \A g \in aes : g.pc = "rpc" => node[g.node].mutex = "free"

\* C9: the value HeartBeats takes from successful_write is true exactly when
\* a majority, the leader included, has acknowledged in that call.
C9_QuorumSignal ==
    \A i \in Cluster :
        (node[i].alive /\ hb[i].got # "none")
            => (hb[i].got = "true" <=> successes[i][hb[i].call] >= Majority)

\* C10: a Leader that processes an AppendEntries reply, or a Candidate that
\* processes a RequestVote reply, of a term above its own ends the step as
\* Follower of that term without a vote, and the reply changes no index and
\* no counter.
C10_HigherTermStepdown ==
    [][/\ \A g \in aes :
            ( /\ g.pc = "reply" /\ g.resp # Nil
              /\ node[g.node].state = Leader
              /\ g.resp.Term > node[g.node].currentTerm
              /\ AEReply(g) )
            => /\ node'[g.node].state = Follower
               /\ node'[g.node].currentTerm = g.resp.Term
               /\ node'[g.node].votedFor = -1
               /\ node'[g.node].nextIndex = node[g.node].nextIndex
               /\ node'[g.node].matchIndex = node[g.node].matchIndex
               /\ successes' = successes
       /\ \A g \in elec :
            ( /\ g.pc = "reply" /\ g.resp # Nil
              /\ node[g.node].state = Candidate
              /\ g.resp.Term > node[g.node].currentTerm
              /\ ElectionReply(g) )
            => /\ node'[g.node].state = Follower
               /\ node'[g.node].currentTerm = g.resp.Term
               /\ node'[g.node].votedFor = -1
               /\ received_votes' = received_votes]_vars

\* C11: a reply processed by a replica that is no longer in the role and
\* term of the request is discarded: an AppendEntries reply then changes no
\* nextIndex, no matchIndex and no success counter; a RequestVote reply
\* changes no tally and calls no ToLeader.
C11_StaleRepliesDiscarded ==
    [][/\ \A g \in aes :
            ( /\ g.pc = "reply"
              /\ ~(node[g.node].state = Leader /\ node[g.node].currentTerm = g.msg.Term)
              /\ AEReply(g) )
            => /\ node'[g.node].nextIndex = node[g.node].nextIndex
               /\ node'[g.node].matchIndex = node[g.node].matchIndex
               /\ successes' = successes
       /\ \A g \in elec :
            ( /\ g.pc = "reply"
              /\ ~(node[g.node].state = Candidate /\ node[g.node].currentTerm = g.elec)
              /\ ElectionReply(g) )
            => /\ received_votes' = received_votes
               /\ node'[g.node].state # Leader
               /\ \A w \in elec' : w.node = g.node => w.pc # "win"]_vars

\* lf is a strict prefix of ll.
StrictPrefix(lf, ll) == Len(lf) < Len(ll) /\ SubSeq(ll, 1, Len(lf)) = lf

\* C12: while L is Leader of the message's term and F's log is a strict
\* prefix of L's, a rejection by F makes LeaderSendAE retry with prevLogIndex
\* one lower; the acceptance that ends a chain of retries leaves F's log
\* equal to L's on 0..U, matchIndex[F] = U and nextIndex[F] = U + 1.
C12_BackfillConverges ==
    [][\A g \in aes :
          LET L == g.node
              F == g.peer
              leads == node[L].state = Leader /\ node[L].currentTerm = g.msg.Term
          IN /\ ( /\ g.pc = "reply" /\ leads
                  /\ ~g.resp.Success /\ g.resp.Term <= node[L].currentTerm
                  /\ StrictPrefix(node[F].log, node[L].log)
                  /\ AEReply(g) )
                => \E r \in aes' :
                      /\ r.node = L /\ r.peer = F /\ r.pc = "rpc"
                      /\ r.tries = g.tries + 1
                      /\ r.msg.PrevLogIndex = g.msg.PrevLogIndex - 1
             /\ ( /\ g.pc = "reply" /\ leads
                  /\ g.resp.Success /\ g.tries > 0
                  /\ AEReply(g) )
                => /\ node'[L].alive
                   /\ node'[L].matchIndex[F] = g.upper
                   /\ node'[L].nextIndex[F] = g.upper + 1
                   /\ Len(node[F].log) > g.upper
                   /\ SubSeq(node[F].log, 1, g.upper + 1)
                        = SubSeq(node[L].log, 1, g.upper + 1)]_vars

\* C13: in every replica's log the terms never decrease with the index; the
\* no-op of ToLeader is no older than the entry before it.
C13_LogTermOrdering ==
    \A i \in Cluster : \A a, b \in 1 .. Len(node[i].log) :
        a < b => node[i].log[a].Term <= node[i].log[b].Term

\* A Leader appended its no-op after an entry of an earlier term, and a
\* Follower holds the same two entries.
C13_Witness ==
    \E i \in Cluster, p \in Cluster :
        /\ p # i
        /\ node[i].state = Leader
        /\ Len(node[i].log) = 2
        /\ node[i].log[2] = NoOp(node[i].currentTerm)
        /\ node[i].log[1].Term < node[i].log[2].Term
        /\ node[p].log = node[i].log

\* C14: every AppendEntries message a Leader has sent to peer p and that is
\* awaiting its reply has prevLogIndex = nextIndex[p] - 1, prevLogTerm the
\* term of that entry (-1 below index 0) and entries = log[prevLogIndex+1 .. U].
C14_MessageComposition ==
    \A g \in aes :
        (g.pc = "rpc" /\ node[g.node].state = Leader)
        => LET nd == node[g.node]
               pli == nd.nextIndex[g.peer] - 1
           IN /\ g.msg.PrevLogIndex = pli
              /\ IF pli < 0 THEN g.msg.PrevLogTerm = -1
                 ELSE /\ pli < Len(nd.log)
                      /\ g.msg.PrevLogTerm = nd.log[pli + 1].Term
              /\ g.upper < Len(nd.log)
              /\ g.msg.Entries = LogSlice(nd.log, pli + 1, g.upper)

\* C15: a Leader's nextIndex[p] is never below 0 and no AppendEntries message
\* in flight has prevLogIndex below -1.
C15_NextIndexLowerBound ==
    /\ \A i \in Cluster :
          node[i].state = Leader => \A p \in Peers(i) : node[i].nextIndex[p] >= 0
    /\ \A g \in aes : g.pc = "rpc" => g.msg.PrevLogIndex >= -1

\* C16: ToLeader on a Candidate of term T whose log has length L leaves it
\* Leader with the same log followed by one no-op of term T, nextIndex[p] = L
\* (the length of the log it was called with) and matchIndex[p] = 0 for every
\* peer p, and currentTerm, votedFor and commitIndex as they were.
C16_ToLeaderEffect ==
    [][\A g \in elec :
          (ToLeader(g) /\ node[g.node].state = Candidate)
          => LET was == node[g.node]
                 now == node'[g.node]
             IN /\ now.state = Leader
                /\ now.log = was.log \o <<[Term |-> was.currentTerm, Operation |-> "NO-OP"]>>
                /\ \A p \in Peers(g.node) :
                      now.nextIndex[p] = Len(was.log) /\ now.matchIndex[p] = 0
                /\ now.currentTerm = was.currentTerm
                /\ now.votedFor = was.votedFor
                /\ now.commitIndex = was.commitIndex]_vars

\* ToLeader has just returned on a Candidate that held one entry: the no-op
\* is second in the log and no goroutine of LeaderSendAEs has run yet.
C16_Witness ==
    \E i \in Cluster :
        /\ node[i].state = Leader
        /\ Len(node[i].log) = 2
        /\ hb[i].pc = "tick" /\ hb[i].beats = 0
        /\ \A p \in Peers(i) :
              /\ node[i].nextIndex[p] = 1
              /\ \E g \in aes : g.node = i /\ g.peer = p /\ g.ver = "old" /\ g.pc = "lock"

\* C17: when the AppendEntries call to peer p fails in the transport,
\* LeaderSendAE returns false to the goroutine of LeaderSendAEs, and the
\* sender's nextIndex, matchIndex, role, currentTerm and log are unchanged.
C17_TransportFailure ==
    [][\A g \in aes :
          AppendEntriesFails(g)
          => LET was == node[g.node]
                 now == node'[g.node]
             IN /\ now.alive
                /\ \E r \in aes' :
                      /\ r.node = g.node /\ r.peer = g.peer /\ r.call = g.call
                      /\ r.pc = "send" /\ ~r.val
                /\ now.nextIndex = was.nextIndex
                /\ now.matchIndex = was.matchIndex
                /\ now.state = was.state
                /\ now.currentTerm = was.currentTerm
                /\ now.log = was.log]_vars

\* C18: every RequestVote message in flight for the election of term T
\* carries term T and the sender's id and, when the candidate holds entries,
\* the index and the term of its last entry.
C18_RequestVoteContent ==
    \A g \in elec :
        (g.pc = "sent" /\ node[g.node].alive)
        => LET req == RequestVoteArgs(g)
               nd == node[g.node]
           IN /\ req.Term = g.elec
              /\ req.CandidateId = g.node
              /\ Len(nd.log) > 0 =>
                    /\ req.LastLogIndex = LastLogIndex(nd)
                    /\ req.LastLogTerm = LastLogTerm(nd)

\* C19: when a Leader has matchIndex[p] = U > 0, peer p's log is longer than
\* U and equals the Leader's log on the indices 0..U.
C19_MatchIndexSound ==
    \A i \in Cluster : \A p \in Peers(i) :
        LET U == node[i].matchIndex[p] IN
        (node[i].state = Leader /\ node[i].alive /\ U > 0)
        => /\ Len(node[p].log) > U
           /\ Len(node[i].log) > U
           /\ SubSeq(node[p].log, 1, U + 1) = SubSeq(node[i].log, 1, U + 1)

\* C20: no holder of raft_node_mutex is blocked for ever on a channel send:
\* not on electionResetEvent in ToFollower, not on stopElectiontimer in
\* ToLeader with no timer left in its select, not on successful_write after
\* HeartBeats has taken the one value of that call.
C20_LockReleased ==
    /\ \A i \in Cluster : node[i].alive => node[i].blockedOn = "none"
    /\ \A g \in elec : g.pc = "win" => node[g.node].timers > 0
    /\ \A g \in aes :
          g.pc = "send" => (hb[g.node].pc = "recv" /\ hb[g.node].call = g.call)

====
